---- MODULE Spec2Model ----
(***************************************************************************)
(* VocalText (Voice-to-Doc): the recording-session controller and the      *)
(* transcript store of the App component (the variant with the word and    *)
(* duration ceilings), modelled as a state machine.                        *)
(*                                                                         *)
(* React state is the set of useState cells.  An event handler of the UI   *)
(* (click, change) runs with the closures of the latest render and its     *)
(* render and effects are taken in the same step (React 18 flushes a       *)
(* discrete event synchronously).  A callback that React does not own      *)
(* (recognition.onresult / onerror / onend, setInterval) runs with the     *)
(* closures that were registered by the effect that last ran; the state    *)
(* updates it queues are committed at once, and the effects of the render  *)
(* that follows (when a dependency changed) run in the step Render.        *)
(*                                                                         *)
(* Text is a sequence of one-character strings.  Time is counted in ticks; *)
(* the program's constants are scaled to ticks and words (see below).      *)
(***************************************************************************)
EXTENDS Integers, Sequences, FiniteSets, TLC

\* ---------------------------------------------------------------- bounds
MaxTime == 3
MaxSlots == 1
MaxStored == 1
MaxBlankLen == 2

\* ------------------------------------------------- program constants
\* ONE_DAY_MS = 24h, scaled to ticks (one tick is twelve hours).
ONE_DAY_MS == 2
\* MAX_WORD_COUNT = 88888, scaled to two words.
MAX_WORD_COUNT == 2
\* MAX_RECORDING_HOURS = 6, scaled to one tick.
MAX_RECORDING_HOURS == 1

\* null: a cleared timestamp, an absent error, an absent storage value, an unset ref
NoTime == 0
NoError == [message |-> "", details |-> ""]
NoItem == [present |-> FALSE, items |-> <<>>]
NoRef == "null"
NoFile == [name |-> <<>>, text |-> <<>>]
Languages == {"en-US", "zh-CN"}

\* ErrorState values (message, details)
WordLimitError == [message |-> "Maximum Word Count Reached", details |-> "words"]
DurationLimitError == [message |-> "Maximum Recording Duration Reached", details |-> "hours"]
StartError == [message |-> "Recognition Start Error", details |-> "Failed to start"]
\* An error that would not carry the code
RecognitionErrorGeneric(code) == [message |-> "Recognition Error", details |-> "unknown"]
RecognitionError(code) == [message |-> "Recognition Error", details |-> code]

VARIABLES
  status,              \* useState<RecordingStatus>
  transcript,          \* useState<string>: the final text
  error,               \* useState<ErrorState | null>
  interimTranscript,   \* useState<string>
  selectedLanguage,    \* useState<Language>
  storedTranscripts,   \* useState<StoredTranscript[]>
  recordingStartTime,  \* useState<number | null>
  recognitionRef,      \* useRef: Null or "recognition"
  transcriptRef,       \* useRef<string>
  localStorage,        \* the value under STORAGE_KEY: Null or the list
  now,                 \* Date.now()
  recState,            \* the recognizer: inactive, active, stopping, errored
  recLang,             \* recognition.lang
  handlers,            \* closure of the registered onresult/onerror/onend
  durationTimer,       \* the duration interval and its closure
  watch,               \* which history is kept ("none", "errored", "results" or a
                       \* step) or which environment is taken ("blank", "quota")
  lastOp,              \* history: the step just taken, if it is the watched one
  errored,             \* history: onerror fired and no session was started since
  lastResults,         \* history: event.results of the session's last onresult
  lastDownload,        \* history: the file last handed to the browser
  pruned               \* history: the records loadAndCleanTranscripts has removed

vars == <<status, transcript, error, interimTranscript, selectedLanguage,
          storedTranscripts, recordingStartTime, recognitionRef, transcriptRef,
          localStorage, now, recState, recLang, handlers, durationTimer,
          watch, lastOp, errored, lastResults, lastDownload, pruned>>

\* ------------------------------------------------- event.results
\* transcript of a slot: a word; in the specification of blank sessions the
\* recognizer hears nothing and the transcript is empty
SlotTexts == IF watch = "blank" THEN {<<>>} ELSE {<<"a">>}
Slots == [text : SlotTexts, isFinal : BOOLEAN]
ResultSets == UNION {[1..n -> Slots] : n \in 1..MaxSlots}

\* event.error of recognition.onerror: one code; two in the specification of the
\* error callback
ErrorCodes == IF watch = "onerror" THEN {"network", "no-speech"} ELSE {"network"}

\* ------------------------------------------------------------ strings
IsSpace(c) == c = " "

RECURSIVE TrimStart(_)
TrimStart(s) ==
  IF s = <<>> THEN <<>>
  ELSE IF IsSpace(Head(s)) THEN TrimStart(Tail(s)) ELSE s

RECURSIVE TrimEnd(_)
TrimEnd(s) ==
  IF s = <<>> THEN <<>>
  ELSE IF IsSpace(s[Len(s)]) THEN TrimEnd(SubSeq(s, 1, Len(s) - 1)) ELSE s

\* String.prototype.trim
Trim(s) == TrimEnd(TrimStart(s))

\* s.split(/\s+/).length: one more than the number of whitespace runs
SplitLength(s) ==
  1 + Cardinality({i \in 1..Len(s) : IsSpace(s[i]) /\ (i = 1 \/ ~IsSpace(s[i - 1]))})

\* transcript.trim().split(/\s+/).length
WordCount(s) == SplitLength(Trim(s))

\* ------------------------------------------------ the onresult loop
RECURSIVE FinalOf(_)
FinalOf(rs) ==
  IF rs = <<>> THEN <<>>
  ELSE (IF Head(rs).isFinal THEN Head(rs).text \o <<" ">> ELSE <<>>) \o FinalOf(Tail(rs))

RECURSIVE InterimOf(_)
InterimOf(rs) ==
  IF rs = <<>> THEN <<>>
  ELSE (IF Head(rs).isFinal THEN <<>> ELSE Head(rs).text) \o InterimOf(Tail(rs))

\* let final = transcriptRef.current; the loop appends the final slots to it
ResultFinal(ref, rs) == ref \o FinalOf(rs)

\* ------------------------------------------------------- the store
\* localStorage.getItem(STORAGE_KEY) is null or the JSON of a list
Item(list) == [present |-> TRUE, items |-> list]

\* A filter that would also keep a record of exactly one day
IsValidInclusive(t, n) == (n - t.timestamp) <= ONE_DAY_MS
\* A validity test that keeps every record
IsValidAlways(t, n) == TRUE
\* the filter of loadAndCleanTranscripts
IsValid(t, n) == (n - t.timestamp) < ONE_DAY_MS

\* The records the filter drops
Expired(ts, n) == {ts[i] : i \in {j \in 1..Len(ts) : ~IsValid(ts[j], n)}}

RECURSIVE FilterValid(_, _)
FilterValid(ts, n) ==
  IF ts = <<>> THEN <<>>
  ELSE (IF IsValid(Head(ts), n) THEN <<Head(ts)>> ELSE <<>>) \o FilterValid(Tail(ts), n)

\* A record that would hold the trimmed text
NewTranscriptTrimmed(text, lang, n) ==
  [id |-> n, text |-> Trim(text), language |-> lang, timestamp |-> n,
   wordCount |-> WordCount(text)]
\* newTranscript: id is Date.now().toString(), an injective image of now
NewTranscript(text, lang, n) ==
  [id |-> n, text |-> text, language |-> lang, timestamp |-> n,
   wordCount |-> WordCount(text)]

\* ------------------------------------------------- the recognizer
\* recognition.continuous and recognition.interimResults, set once when the module
\* is evaluated and written nowhere else
Continuous == TRUE
InterimResults == TRUE
\* recognition.stop(): an active recognizer starts stopping
RecStop(r) == IF r = "active" THEN "stopping" ELSE r
\* recognition.start() throws unless the recognizer is inactive
StartThrows(r) == r # "inactive"

\* ---------------------------------------------- handleStopRecording
\* What handleStopRecording writes, given the transcript, storedTranscripts and
\* selectedLanguage its closure captured.  ref is recognitionRef.current.
\* localStorage.setItem throws when the quota is exceeded: the outcomes of a write,
\* TRUE for a throw (only in the specification of the full storage)
WriteOutcomes == IF watch = "quota" THEN BOOLEAN ELSE {FALSE}

\* The text handleStopRecording gets stored: none when setItem throws, since the
\* exception leaves the handler before setStoredTranscripts
Written(ctext, thrown) == IF thrown THEN <<>> ELSE ctext

\* handleStopRecording has thrown: it had a text to store and the write failed
StopThrows(ref, ctext, thrown) == thrown /\ ref # NoRef /\ Trim(ctext) # <<>>

\* A stop that would store a blank transcript as well
StopPersistsBlank(ref, ctext) == ref # NoRef
StopPersists(ref, ctext) == ref # NoRef /\ Trim(ctext) # <<>>
StopUpdated(ctext, cstored, clang) == cstored \o <<NewTranscript(ctext, clang, now)>>
StopStore(ref, ctext, cstored, clang) ==
  IF StopPersists(ref, ctext) THEN Item(StopUpdated(ctext, cstored, clang)) ELSE localStorage
StopMemory(ref, ctext, cstored, clang) ==
  IF StopPersists(ref, ctext) THEN StopUpdated(ctext, cstored, clang) ELSE storedTranscripts
\* A stop that would leave status as it is
StopStatusKeeps(ref) == status
\* A stop that would enter the declared status transcribing
StopStatusTranscribing(ref) == IF ref # NoRef THEN "transcribing" ELSE status
StopStatus(ref) == IF ref # NoRef THEN "complete" ELSE status
StopStartTime(ref) == IF ref # NoRef THEN NoTime ELSE recordingStartTime
StopRec(ref, r) == IF ref # NoRef THEN RecStop(r) ELSE r

\* ------------------------------------------------------- effects
\* The values a render's handleStopRecording closes over.  The closure reads
\* storedTranscripts only inside if (transcript.trim()), so a closure whose transcript
\* is blank never reads the list it captured: it is recorded as empty.
CapturedStored(t, st) == IF Trim(t) = <<>> THEN <<>> ELSE st

Closure(s, t, st, l) ==
  [status |-> s, transcript |-> t, storedTranscripts |-> CapturedStored(t, st),
   selectedLanguage |-> l]

NoTimer(s, rst) ==
  [on |-> FALSE, depStatus |-> s, depStart |-> rst, transcript |-> <<>>,
   storedTranscripts |-> <<>>, selectedLanguage |-> "en-US"]

\* useEffect [status, selectedLanguage]: cleanup stops the recognizer, the body
\* sets recognition.lang and registers the three handlers of this render
RecognitionEffectRuns(s, l) == s # handlers.status \/ l # handlers.selectedLanguage

\* useEffect [status, recordingStartTime]: the duration interval
DurationEffectRuns(s, rst) == s # durationTimer.depStatus \/ rst # durationTimer.depStart

\* An effect that would leave the recognizer with the default language
EffectLangDefault(l) == "en-US"
\* recognition.lang = selectedLanguage
EffectLang(l) == l

\* The committed state has dependencies that differ from those of the effects that
\* last ran: a render with effects to run is scheduled
EffectsPending ==
  \/ RecognitionEffectRuns(status, selectedLanguage)
  \/ DurationEffectRuns(status, recordingStartTime)

\* The effects of the render of state (s, t, st, l, rst), the recognizer being r
RunEffects(s, t, st, l, rst, r) ==
  /\ handlers' = IF RecognitionEffectRuns(s, l) THEN Closure(s, t, st, l) ELSE handlers
  /\ recState' = IF RecognitionEffectRuns(s, l) THEN RecStop(r) ELSE r
  /\ recLang' = IF RecognitionEffectRuns(s, l) THEN EffectLang(l) ELSE recLang
  /\ durationTimer' =
       IF DurationEffectRuns(s, rst)
       THEN IF s = "recording" /\ rst # NoTime
            THEN [on |-> TRUE, depStatus |-> s, depStart |-> rst, transcript |-> t,
                  storedTranscripts |-> CapturedStored(t, st), selectedLanguage |-> l]
            ELSE NoTimer(s, rst)
       ELSE durationTimer


\* The value of lastOp after step name
Mark(name) ==
  IF watch = name \/ (watch = "blank" /\ name = "stop") THEN name ELSE "none"

\* ----------------------------------------------------------- Init
\* The state after the first render and its effects (the load at mount included),
\* the storage holding the unexpired records list
MountedWith(list) ==
  /\ status = "idle"
  /\ transcript = <<>>
  /\ error = NoError
  /\ interimTranscript = <<>>
  /\ selectedLanguage = "en-US"
  /\ storedTranscripts = list
  /\ recordingStartTime = NoTime
  /\ recognitionRef = "recognition"
  /\ transcriptRef = <<>>
  /\ localStorage = (IF list = <<>> THEN NoItem ELSE Item(list))
  /\ now = 1
  /\ recState = "inactive"
  /\ recLang = "en-US"
  /\ handlers = Closure("idle", <<>>, <<>>, "en-US")
  /\ durationTimer = NoTimer("idle", NoTime)
  /\ errored = FALSE
  /\ lastResults = <<>>
  /\ lastOp = "none"
  /\ lastDownload = NoFile
  /\ pruned = {}

\* The first visit: nothing is stored
Mounted == MountedWith(<<>>)

\* A browser without the capability: SpeechRecognition is undefined, so
\* new SpeechRecognition() throws while the module is evaluated and App is never
\* rendered; there is no component state, no handler and no interval
NotRendered ==
  /\ status = "unmounted"
  /\ transcript = <<>>
  /\ error = NoError
  /\ interimTranscript = <<>>
  /\ selectedLanguage = "en-US"
  /\ storedTranscripts = <<>>
  /\ recordingStartTime = NoTime
  /\ recognitionRef = NoRef
  /\ transcriptRef = <<>>
  /\ localStorage = NoItem
  /\ now = 1
  /\ recState = "absent"
  /\ recLang = "en-US"
  /\ handlers = Closure("unmounted", <<>>, <<>>, "en-US")
  /\ durationTimer = NoTimer("unmounted", NoTime)
  /\ errored = FALSE
  /\ lastResults = <<>>
  /\ lastOp = "none"
  /\ lastDownload = NoFile
  /\ pruned = {}

\* The component exists
Rendered == status # "unmounted"

\* A record persisted by an earlier visit
EarlierRecord == NewTranscript(<<"a", " ">>, "en-US", 1)

\* No history is kept
Init == Mounted /\ watch = "none"

\* ------------------------------------------------- user handlers
\* A start handler that would keep the text of the previous session
handleStartRecordingKeepsText ==
  /\ Rendered
  /\ ~EffectsPending
  /\ status # "recording"
  /\ LET ok == ~StartThrows(recState)
         s == IF ok THEN "recording" ELSE "error"
     IN /\ error' = (IF ok THEN NoError ELSE StartError)
        /\ recordingStartTime' = now
        /\ status' = s
        /\ RunEffects(s, transcript, storedTranscripts, selectedLanguage, now,
                      IF ok THEN "active" ELSE recState)
  /\ errored' = FALSE
  /\ lastOp' = Mark("start")
  /\ lastResults' = <<>>
  /\ UNCHANGED <<pruned, lastDownload, watch, transcript, interimTranscript, transcriptRef, selectedLanguage,
                 storedTranscripts, recognitionRef, localStorage, now>>

\* A start handler that would not catch the exception of recognition.start()
handleStartRecordingUncaught ==
  /\ ~EffectsPending
  /\ status # "recording"
  /\ transcript' = <<>>
  /\ interimTranscript' = <<>>
  /\ error' = NoError
  /\ transcriptRef' = <<>>
  /\ recordingStartTime' = now
  /\ status' = "recording"
  /\ RunEffects("recording", <<>>, storedTranscripts, selectedLanguage, now,
                IF StartThrows(recState) THEN recState ELSE "active")
  /\ errored' = FALSE
  /\ lastOp' = Mark("start")
  /\ lastResults' = <<>>
  /\ UNCHANGED <<pruned, lastDownload, watch, selectedLanguage, storedTranscripts, recognitionRef,
                 localStorage, now>>

\* The record button while status is not recording
handleStartRecording ==
  /\ Rendered
  /\ ~EffectsPending
  /\ status # "recording"
  /\ LET ok == ~StartThrows(recState)
         s == IF ok THEN "recording" ELSE "error"
     IN /\ transcript' = <<>>
        /\ interimTranscript' = <<>>
        /\ error' = (IF ok THEN NoError ELSE StartError)
        /\ transcriptRef' = <<>>
        /\ recordingStartTime' = now
        /\ status' = s
        /\ RunEffects(s, <<>>, storedTranscripts, selectedLanguage, now,
                      IF ok THEN "active" ELSE recState)
  /\ errored' = FALSE
  /\ lastOp' = Mark("start")
  /\ lastResults' = <<>>
  /\ UNCHANGED <<pruned, lastDownload, watch>>
  /\ UNCHANGED <<selectedLanguage, storedTranscripts, recognitionRef, localStorage,
                 now>>

\* The longest stored list: one record more in the specifications of the ids and of
\* the removed records
StoredCap == IF watch \in {"ids", "pruned"} THEN MaxStored + 1 ELSE MaxStored

\* The state handleStopRecording leaves, called with the closure (ctext, cstored,
\* clang); l is the language of the next render
StopWith(ctext, cstored, clang) ==
  /\ Len(StopStore(recognitionRef, ctext, cstored, clang).items) <= StoredCap
  /\ status' = StopStatus(recognitionRef)
  /\ recordingStartTime' = StopStartTime(recognitionRef)
  /\ localStorage' = StopStore(recognitionRef, ctext, cstored, clang)
  /\ storedTranscripts' = StopMemory(recognitionRef, ctext, cstored, clang)

\* The record button while status is recording
handleStopRecording ==
  /\ ~EffectsPending
  /\ status = "recording"
  /\ \E thrown \in WriteOutcomes :
       LET text == Written(transcript, thrown)
       IN /\ StopWith(text, storedTranscripts, selectedLanguage)
          /\ RunEffects(StopStatus(recognitionRef), transcript,
                        StopMemory(recognitionRef, text, storedTranscripts,
                                   selectedLanguage),
                        selectedLanguage, StopStartTime(recognitionRef),
                        StopRec(recognitionRef, recState))
  /\ lastOp' = Mark("stop")
  /\ UNCHANGED <<pruned, lastDownload, watch, lastResults>>
  /\ UNCHANGED <<transcript, error, interimTranscript, selectedLanguage, recognitionRef,
                 transcriptRef, now, errored>>

\* The value of lastOp after a language change: one that stops a recording session
\* is told apart
MarkLanguage ==
  IF watch = "flush" /\ status = "recording" THEN "flush" ELSE Mark("language")

\* A selector that would change the language without stopping the session
handleLanguageChangeSilent(l) ==
  /\ ~EffectsPending
  /\ l # selectedLanguage
  /\ selectedLanguage' = l
  /\ RunEffects(status, transcript, storedTranscripts, l, recordingStartTime, recState)
  /\ UNCHANGED <<status, recordingStartTime, localStorage, storedTranscripts, transcript,
                 error, interimTranscript, recognitionRef, transcriptRef, now, errored,
                 pruned, lastDownload, watch, lastResults>>
  /\ lastOp' = Mark("language")

\* A selector that would stop the session whatever the status
handleLanguageChangeStops(l) ==
  /\ Rendered
  /\ ~EffectsPending
  /\ l # selectedLanguage
  /\ selectedLanguage' = l
  /\ \E thrown \in WriteOutcomes :
       LET text == Written(transcript, thrown)
       IN /\ StopWith(text, storedTranscripts, selectedLanguage)
          /\ RunEffects(StopStatus(recognitionRef), transcript,
                        StopMemory(recognitionRef, text, storedTranscripts,
                                   selectedLanguage),
                        l, StopStartTime(recognitionRef),
                        StopRec(recognitionRef, recState))
  /\ lastOp' = MarkLanguage
  /\ UNCHANGED <<pruned, lastDownload, watch, lastResults>>
  /\ UNCHANGED <<transcript, error, interimTranscript, recognitionRef, transcriptRef,
                 now, errored>>

\* The language selector
handleLanguageChange(l) ==
  /\ Rendered
  /\ ~EffectsPending
  /\ l # selectedLanguage
  /\ selectedLanguage' = l
  /\ IF status = "recording"
     THEN \E thrown \in WriteOutcomes :
            LET text == Written(transcript, thrown)
            IN /\ StopWith(text, storedTranscripts, selectedLanguage)
               /\ RunEffects(StopStatus(recognitionRef), transcript,
                             StopMemory(recognitionRef, text, storedTranscripts,
                                        selectedLanguage),
                             l, StopStartTime(recognitionRef),
                             StopRec(recognitionRef, recState))
     ELSE /\ RunEffects(status, transcript, storedTranscripts, l, recordingStartTime,
                        recState)
          /\ UNCHANGED <<status, recordingStartTime, localStorage, storedTranscripts>>
  /\ lastOp' = MarkLanguage
  /\ UNCHANGED <<pruned, lastDownload, watch, lastResults>>
  /\ UNCHANGED <<transcript, error, interimTranscript, recognitionRef, transcriptRef,
                 now, errored>>

\* A close button that would clear the error and leave status as it is
handleDismissErrorKeepsStatus ==
  /\ ~EffectsPending
  /\ error # NoError
  /\ error' = NoError
  /\ lastOp' = Mark("dismiss")
  /\ UNCHANGED <<pruned, lastDownload, watch, lastResults>>
  /\ UNCHANGED <<status, transcript, interimTranscript, selectedLanguage,
                 storedTranscripts, recordingStartTime, recognitionRef, transcriptRef,
                 localStorage, now, recState, recLang, handlers, durationTimer,
                 errored>>

\* The close button of the error banner, rendered while error is set
handleDismissError ==
  /\ ~EffectsPending
  /\ error # NoError
  /\ error' = NoError
  /\ status' = "idle"
  /\ RunEffects("idle", transcript, storedTranscripts, selectedLanguage,
                recordingStartTime, recState)
  /\ lastOp' = Mark("dismiss")
  /\ UNCHANGED <<pruned, lastDownload, watch, lastResults>>
  /\ UNCHANGED <<transcript, interimTranscript, selectedLanguage, storedTranscripts,
                 recordingStartTime, recognitionRef, transcriptRef, localStorage, now,
                 errored>>

\* ----------------------------------------------------------- export
\* langCode of handleDownload
LangCode(lang) == IF lang = "zh-CN" THEN "cn" ELSE "en"

\* new Date().toISOString().split('T')[0]: the day of the current time
IsoDate(n) == n \div ONE_DAY_MS

\* link.download
FileName(lang, n) == <<"transcript-", LangCode(lang), "-", IsoDate(n), ".txt">>

\* The downloads the page offers: the transcript of a complete session, and every
\* listed record
Offered ==
  (IF status = "complete" /\ transcript # <<>>
   THEN {<<transcript, selectedLanguage>>} ELSE {})
  \cup {<<storedTranscripts[i].text, storedTranscripts[i].language>> :
          i \in 1..Len(storedTranscripts)}

\* A download button
handleDownload(text, lang) ==
  /\ Rendered
  /\ ~EffectsPending
  /\ <<text, lang>> \in Offered
  /\ lastDownload' = (IF watch = "download"
                      THEN [name |-> FileName(lang, now), text |-> text]
                      ELSE NoFile)
  /\ lastOp' = Mark("download")
  /\ UNCHANGED <<pruned, watch, lastResults>>
  /\ UNCHANGED <<status, transcript, error, interimTranscript, selectedLanguage,
                 storedTranscripts, recordingStartTime, recognitionRef, transcriptRef,
                 localStorage, now, recState, recLang, handlers, durationTimer, errored>>

\* ------------------------------------------- recognizer callbacks
\* recognition.onresult, with the closure of the registered handlers
onresult(rs) ==
  /\ recState \in {"active", "stopping"}
  /\ watch = "blank" => Len(ResultFinal(transcriptRef, rs)) <= MaxBlankLen
  /\ LET final == ResultFinal(transcriptRef, rs)
         interim == InterimOf(rs)
     IN IF WordCount(final) > MAX_WORD_COUNT
        THEN /\ \E thrown \in WriteOutcomes :
                  /\ StopWith(Written(handlers.transcript, thrown),
                              handlers.storedTranscripts, handlers.selectedLanguage)
                  /\ error' = (IF StopThrows(recognitionRef, handlers.transcript, thrown)
                               THEN error ELSE WordLimitError)
             /\ recState' = StopRec(recognitionRef, recState)
             /\ UNCHANGED <<transcript, interimTranscript, transcriptRef>>
        ELSE /\ transcriptRef' = final
             /\ transcript' = final
             /\ interimTranscript' = interim
             /\ UNCHANGED <<status, recordingStartTime, localStorage,
                            storedTranscripts, recState, error>>
  /\ lastOp' = Mark("onresult")
  /\ lastResults' = (IF watch = "results" THEN rs ELSE <<>>)
  /\ UNCHANGED <<pruned, lastDownload, watch>>
  /\ UNCHANGED <<selectedLanguage, recognitionRef, now, recLang, handlers,
                 durationTimer, errored>>

\* recognition.onerror: the recognizer has failed and will only signal its end
onerror(code) ==
  /\ recState \in {"active", "stopping"}
  /\ error' = RecognitionError(code)
  /\ status' = "error"
  /\ recState' = RecStop("errored")
  /\ errored' = (watch = "errored")
  /\ lastOp' = Mark("onerror")
  /\ UNCHANGED <<pruned, lastDownload, watch, lastResults>>
  /\ UNCHANGED <<transcript, interimTranscript, selectedLanguage, storedTranscripts,
                 recordingStartTime, recognitionRef, transcriptRef, localStorage, now,
                 recLang, handlers, durationTimer>>

\* An end handler that would never restart
OnEndRestartsNever(s) == FALSE
\* onend: if (status === 'recording') recognition.start()
OnEndRestarts(s) == s = "recording"

\* onend: else if (status !== 'error') setStatus('complete')
OnEndCompletes(s) == s # "recording" /\ s # "error"

\* recognition.onend: the recognizer has become inactive
onend ==
  /\ recState \in {"active", "stopping", "errored"}
  /\ IF OnEndRestarts(handlers.status)
     THEN /\ recState' = (IF StartThrows("inactive") THEN "inactive" ELSE "active")
          /\ UNCHANGED status
     ELSE /\ recState' = "inactive"
          /\ IF OnEndCompletes(handlers.status)
             THEN status' = "complete"
             ELSE UNCHANGED status
  /\ lastOp' = Mark("onend")
  /\ UNCHANGED <<pruned, lastDownload, watch, lastResults>>
  /\ UNCHANGED <<transcript, error, interimTranscript, selectedLanguage,
                 storedTranscripts, recordingStartTime, recognitionRef, transcriptRef,
                 localStorage, now, recLang, handlers, durationTimer, errored>>

\* ----------------------------------------------------------- timers
\* The one-second interval of the duration effect, when it finds the ceiling reached
DurationReached(start, n) == (n - start) >= MAX_RECORDING_HOURS

durationCheck ==
  /\ durationTimer.on
  /\ DurationReached(durationTimer.depStart, now)
  /\ \E thrown \in WriteOutcomes :
       /\ StopWith(Written(durationTimer.transcript, thrown),
                   durationTimer.storedTranscripts, durationTimer.selectedLanguage)
       /\ error' = (IF StopThrows(recognitionRef, durationTimer.transcript, thrown)
                    THEN error ELSE DurationLimitError)
  /\ recState' = StopRec(recognitionRef, recState)
  /\ lastOp' = Mark("duration")
  /\ UNCHANGED <<pruned, lastDownload, watch, lastResults>>
  /\ UNCHANGED <<transcript, interimTranscript, selectedLanguage, recognitionRef,
                 transcriptRef, now, recLang, handlers, durationTimer, errored>>

\* The value of lastOp after a load: a load that follows a load is told apart
MarkLoad ==
  IF watch = "reload"
  THEN (IF lastOp \in {"load", "reload"} THEN "reload" ELSE "load")
  ELSE Mark("load")

\* A load that would hand the unfiltered list to the component
loadAndCleanTranscriptsStale ==
  /\ IF localStorage.present
     THEN /\ localStorage' =
               (IF Len(FilterValid(localStorage.items, now)) # Len(localStorage.items)
                THEN Item(FilterValid(localStorage.items, now))
                ELSE localStorage)
          /\ storedTranscripts' = localStorage.items
     ELSE UNCHANGED <<localStorage, storedTranscripts>>
  /\ lastOp' = MarkLoad
  /\ pruned' = (IF watch = "pruned" /\ localStorage.present
                THEN pruned \cup Expired(localStorage.items, now)
                ELSE pruned)
  /\ UNCHANGED <<lastDownload, watch, lastResults>>
  /\ UNCHANGED <<status, transcript, error, interimTranscript, selectedLanguage,
                 recordingStartTime, recognitionRef, transcriptRef, now, recState,
                 recLang, handlers, durationTimer, errored>>

\* loadAndCleanTranscripts, run by the hourly interval
loadAndCleanTranscripts ==
  /\ Rendered
  /\ IF localStorage.present
     THEN /\ localStorage' =
               (IF Len(FilterValid(localStorage.items, now)) # Len(localStorage.items)
                THEN Item(FilterValid(localStorage.items, now))
                ELSE localStorage)
          /\ storedTranscripts' = FilterValid(localStorage.items, now)
     ELSE UNCHANGED <<localStorage, storedTranscripts>>
  /\ lastOp' = MarkLoad
  /\ pruned' = (IF watch = "pruned" /\ localStorage.present
                THEN pruned \cup Expired(localStorage.items, now)
                ELSE pruned)
  /\ UNCHANGED <<lastDownload, watch, lastResults>>
  /\ UNCHANGED <<status, transcript, error, interimTranscript, selectedLanguage,
                 recordingStartTime, recognitionRef, transcriptRef, now, recState,
                 recLang, handlers, durationTimer, errored>>

\* The render that follows a callback React does not own, and its effects
Render ==
  /\ EffectsPending
  /\ RunEffects(status, transcript, storedTranscripts, selectedLanguage,
                recordingStartTime, recState)
  /\ lastOp' = Mark("render")
  /\ UNCHANGED <<pruned, lastDownload, watch, lastResults>>
  /\ UNCHANGED <<status, transcript, error, interimTranscript, selectedLanguage,
                 storedTranscripts, recordingStartTime, recognitionRef, transcriptRef,
                 localStorage, now, errored>>

\* Date.now() advances
Tick ==
  /\ now < MaxTime
  /\ now' = now + 1
  /\ lastOp' = Mark("tick")
  /\ UNCHANGED <<pruned, lastDownload, watch, lastResults>>
  /\ UNCHANGED <<status, transcript, error, interimTranscript, selectedLanguage,
                 storedTranscripts, recordingStartTime, recognitionRef, transcriptRef,
                 localStorage, recState, recLang, handlers, durationTimer, errored>>

Next ==
  \/ handleStartRecording
  \/ handleStopRecording
  \/ \E l \in Languages : handleLanguageChange(l)
  \/ handleDismissError
  \/ \E d \in Offered : handleDownload(d[1], d[2])
  \/ \E rs \in ResultSets : onresult(rs)
  \/ \E code \in ErrorCodes : onerror(code)
  \/ onend
  \/ durationCheck
  \/ loadAndCleanTranscripts
  \/ Render
  \/ Tick

Spec == Init /\ [][Next]_vars

\* The same program with one history kept
InitStop == Mounted /\ watch = "stop"
SpecStop == InitStop /\ [][Next]_vars
InitLanguage == Mounted /\ watch = "language"
SpecLanguage == InitLanguage /\ [][Next]_vars
InitLoad == Mounted /\ watch = "load"
SpecLoad == InitLoad /\ [][Next]_vars
InitEnd == Mounted /\ watch = "onend"
SpecEnd == InitEnd /\ [][Next]_vars
InitResults == Mounted /\ watch = "results"
SpecResults == InitResults /\ [][Next]_vars
InitErrored == Mounted /\ watch = "errored"
SpecErrored == InitErrored /\ [][Next]_vars
InitReload == Mounted /\ watch = "reload"
SpecReload == InitReload /\ [][Next]_vars
InitBlank == MountedWith(<<EarlierRecord>>) /\ watch = "blank"
SpecBlank == InitBlank /\ [][Next]_vars
InitQuota == Mounted /\ watch = "quota"
SpecQuota == InitQuota /\ [][Next]_vars
InitCapability == (Mounted \/ NotRendered) /\ watch = "none"
SpecCapability == InitCapability /\ [][Next]_vars
InitIds == Mounted /\ watch = "ids"
SpecIds == InitIds /\ [][Next]_vars
InitFlush == Mounted /\ watch = "flush"
SpecFlush == InitFlush /\ [][Next]_vars
InitOnError == Mounted /\ watch = "onerror"
SpecOnError == InitOnError /\ [][Next]_vars
\* The mounted component with its hourly interval: setInterval keeps calling
\* loadAndCleanTranscripts, and time does not stop
SpecSweep ==
  InitLoad /\ [][Next]_vars /\ WF_vars(loadAndCleanTranscripts) /\ WF_vars(Tick)
\* The recording session with its one-second interval: setInterval keeps calling the
\* duration check while it is registered, and time does not stop
InitDuration == Mounted /\ watch = "duration"
SpecDuration ==
  InitDuration /\ [][Next]_vars /\ WF_vars(durationCheck) /\ WF_vars(Tick)
InitPruned == Mounted /\ watch = "pruned"
SpecPruned == InitPruned /\ [][Next]_vars
InitDismiss == Mounted /\ watch = "dismiss"
SpecDismiss == InitDismiss /\ [][Next]_vars
InitDownload == Mounted /\ watch = "download"
SpecDownload == InitDownload /\ [][Next]_vars
InitStart == Mounted /\ watch = "start"
SpecStart == InitStart /\ [][Next]_vars

\* ================================================================ claims
\* The number of whitespace-separated words of a text: the positions where a word starts
NumberOfWords(s) ==
  Cardinality({i \in 1..Len(s) : ~IsSpace(s[i]) /\ (i = 1 \/ IsSpace(s[i - 1]))})

\* The record a stop at time n must create for final text t in language l
RecordOf(t, l, n) ==
  [id |-> n, text |-> t, language |-> l, timestamp |-> n, wordCount |-> NumberOfWords(t)]

LastStored == localStorage.items[Len(localStorage.items)]

\* C1: a manual stop (the record button while recording) of a session whose trimmed
\* final text is not empty appends exactly one record to the persisted collection:
\* its text is the untrimmed final text without the interim text, its language the
\* session language, its wordCount the number of words of the text.
C1_ManualStopPersists ==
  [][(handleStopRecording /\ Trim(transcript) # <<>>) =>
       /\ localStorage'.present
       /\ localStorage'.items =
            localStorage.items \o <<RecordOf(transcript, selectedLanguage, now)>>]_vars

\* C1 witness: a stopped session, its two-word final text persisted untrimmed while an
\* interim text was on display
C1_Witness ==
  /\ lastOp = "stop"
  /\ status = "complete"
  /\ interimTranscript # <<>>
  /\ localStorage.present
  /\ localStorage.items # <<>>
  /\ LastStored.text = transcript
  /\ LastStored.text = <<"a", " ", "a", " ">>
  /\ LastStored.wordCount = 2
  /\ LastStored.language = selectedLanguage
  /\ LastStored.timestamp = now

\* C5: a language change while recording with non-empty final text stops the session
\* first: one record with the old language and the captured final text is appended,
\* the language becomes the new one and status ends as complete.
C5_LanguageChangeFlushes ==
  [][\A l \in Languages :
       (handleLanguageChange(l) /\ status = "recording" /\ Trim(transcript) # <<>>) =>
         /\ localStorage'.items =
              localStorage.items \o <<RecordOf(transcript, selectedLanguage, now)>>
         /\ selectedLanguage' = l
         /\ selectedLanguage' # LastStored'.language
         /\ status' = "complete"]_vars

\* C5 witness: the language was just changed to zh-CN, the session is complete and
\* its text was stored at this instant as an en-US record
C5_Witness ==
  /\ lastOp = "language"
  /\ status = "complete"
  /\ selectedLanguage = "zh-CN"
  /\ recState = "stopping"
  /\ localStorage.items # <<>>
  /\ LastStored.language = "en-US"
  /\ LastStored.text = transcript
  /\ LastStored.timestamp = now

C10_AutoRestart ==
  /\ [][(onend /\ status = "recording") =>
          (recState' = "active" /\ status' = "recording" /\ transcript' = transcript)]_vars
  /\ [](status = "recording" => recState \in {"active", "stopping"})

\* C10 witness: an end callback has just been handled, the session is recording and
\* the recognizer is active again
C10_Witness ==
  /\ lastOp = "onend"
  /\ status = "recording"
  /\ recState = "active"
  /\ handlers.status = "recording"

\* C2: after every result callback the final text is the in-order concatenation of
\* the final slots of the delivered result set, each followed by one space: it
\* replaces the previous value and does not accumulate over callbacks.
C2_FinalTextReplaced ==
  [][\A rs \in ResultSets : onresult(rs) => transcript' = FinalOf(rs)]_vars

\* C3: delivering the result set that was delivered last once more leaves the final
\* and the interim text as they were.
C3_Idempotent ==
  [][\A rs \in ResultSets :
       (onresult(rs) /\ lastResults = rs) =>
         (transcript' = transcript /\ interimTranscript' = interimTranscript)]_vars

\* C4: an error callback leaves the persisted collection as it is, and no record is
\* added to it afterwards until a session is started again.
IsAppended(before, after) ==
  \E i \in 1..Len(after) : \A j \in 1..Len(before) : after[i] # before[j]

C4_ErrorDoesNotPersist ==
  /\ [][(\E code \in ErrorCodes : onerror(code)) =>
          (localStorage' = localStorage /\ storedTranscripts' = storedTranscripts)]_vars
  /\ [][(errored /\ errored') => ~IsAppended(localStorage.items, localStorage'.items)]_vars

\* C7: a result callback that produces exactly MAX + 1 words stops the session,
\* persists the transcript as one new record and raises the word-limit error; one
\* that produces exactly MAX words does none of these and the session stays recording.
C7_WordCeiling ==
  [][\A rs \in ResultSets :
       (onresult(rs) /\ status = "recording") =>
         /\ NumberOfWords(ResultFinal(transcriptRef, rs)) = MAX_WORD_COUNT + 1 =>
              /\ status' = "complete"
              /\ error' = WordLimitError
              /\ Len(localStorage'.items) = Len(localStorage.items) + 1
         /\ NumberOfWords(ResultFinal(transcriptRef, rs)) = MAX_WORD_COUNT =>
              /\ status' = "recording"
              /\ error' = error
              /\ localStorage' = localStorage]_vars

\* C8: a recognizer callback delivered while status is complete or error never sets
\* status to recording, never turns complete into error nor error into complete.
RecognizerCallback ==
  \/ \E rs \in ResultSets : onresult(rs)
  \/ \E code \in ErrorCodes : onerror(code)
  \/ onend

C8_LateCallbacksHarmless ==
  [][(RecognizerCallback /\ status \in {"complete", "error"}) =>
       /\ status' # "recording"
       /\ ~(status = "complete" /\ status' = "error")
       /\ ~(status = "error" /\ status' = "complete")]_vars

\* C9: there is no direct transition from idle to complete: no step, also not a late
\* end callback after an error was dismissed, takes status from idle to complete.
C9_NoIdleToComplete ==
  [][~(status = "idle" /\ status' = "complete")]_vars

\* C11: outside recording the recognizer is never started again on its own: an end
\* callback that arrives while status is not recording (after an error or a stop)
\* leaves the recognizer inactive, whatever the order of the end callback and the
\* re-registration of the handlers.
C11_NoRestartOutsideRecording ==
  [][(onend /\ status # "recording") => recState' = "inactive"]_vars

\* C12: when the periodic check of a recording session finds the duration ceiling
\* reached, the session is stopped as by a manual stop: a non-empty final text is
\* persisted as one new record, status becomes complete and the duration-limit
\* error is set.
C12_DurationCeilingPersists ==
  [][(durationCheck /\ status = "recording" /\ Trim(transcript) # <<>>) =>
       /\ localStorage'.items =
            localStorage.items \o <<RecordOf(transcript, selectedLanguage, now)>>
       /\ status' = "complete"
       /\ error' = DurationLimitError]_vars

\* C13: the result callback that pushes the word count above the ceiling is still
\* applied before the session stops: the final text after the forced stop holds the
\* words of that update, so it has more than MAX_WORD_COUNT words.
C13_CrossingUpdateApplied ==
  [][\A rs \in ResultSets :
       (onresult(rs) /\ status = "recording"
          /\ NumberOfWords(ResultFinal(transcriptRef, rs)) > MAX_WORD_COUNT) =>
         NumberOfWords(transcript') > MAX_WORD_COUNT]_vars

\* C16: a start while the recognizer is already started (still active, or stopping
\* and not yet ended) restarts it: the step ends with status recording, no error,
\* the final and interim text cleared and the recognizer started; the start is not
\* rejected.
C16_StartWhileActiveRestarts ==
  [][(handleStartRecording /\ recState \in {"active", "stopping"}) =>
       /\ status' = "recording"
       /\ error' = NoError
       /\ transcript' = <<>>
       /\ interimTranscript' = <<>>
       /\ recState' \in {"active", "stopping"}]_vars

\* C18: when recognition.start() throws inside the start handler (the recognizer
\* has not ended yet), the step ends with status error and an error set, not with
\* status recording, and the persisted and in-memory collections are unchanged.
C18_StartFailure ==
  [][(handleStartRecording /\ recState \in {"active", "stopping", "errored"}) =>
       /\ status' = "error"
       /\ error' # NoError
       /\ localStorage' = localStorage
       /\ storedTranscripts' = storedTranscripts]_vars

C18_Witness ==
  /\ lastOp = "start"
  /\ status = "error"
  /\ error = StartError
  /\ recState \in {"active", "stopping", "errored"}
  /\ localStorage.present

\* C20: the persisted collection changes only in two ways: a step that stops the
\* session appends exactly one record at the end and leaves every existing record
\* as it is, or a load removes exactly the expired records; every other step leaves
\* the collection unchanged.
IsPrefixOf(a, b) == Len(a) <= Len(b) /\ SubSeq(b, 1, Len(a)) = a

Unexpired(ts, n) == SelectSeq(ts, LAMBDA t : n - t.timestamp < ONE_DAY_MS)

StopStep ==
  \/ handleStopRecording
  \/ \E l \in Languages : handleLanguageChange(l)
  \/ durationCheck
  \/ \E rs \in ResultSets : onresult(rs)

C20_StoreFrame ==
  [][\/ localStorage'.items = localStorage.items
     \/ /\ StopStep
        /\ Len(localStorage'.items) = Len(localStorage.items) + 1
        /\ IsPrefixOf(localStorage.items, localStorage'.items)
     \/ /\ loadAndCleanTranscripts
        /\ localStorage'.items = Unexpired(localStorage.items, now)]_vars

\* C15: a load that directly follows a load, at the same time, leaves the persisted
\* and the in-memory collection as the first load left them; and a load that finds
\* no expired record does not rewrite the persisted collection.
C15_LoadIdempotent ==
  /\ [][(loadAndCleanTranscripts /\ lastOp \in {"load", "reload"}) =>
          (localStorage' = localStorage /\ storedTranscripts' = storedTranscripts)]_vars
  /\ [][(loadAndCleanTranscripts
           /\ \A i \in 1..Len(localStorage.items) :
                now - localStorage.items[i].timestamp < ONE_DAY_MS) =>
          localStorage' = localStorage]_vars

C15_Witness ==
  /\ lastOp = "reload"
  /\ localStorage.present
  /\ Len(localStorage.items) = 1
  /\ storedTranscripts = localStorage.items

\* C14: a manual stop of a session whose final text is empty or only whitespace
\* creates no record: the persisted and the in-memory collection are unchanged and
\* status becomes complete.
C14_BlankStopStoresNothing ==
  [][(handleStopRecording /\ Trim(transcript) = <<>>) =>
       /\ localStorage' = localStorage
       /\ storedTranscripts' = storedTranscripts
       /\ status' = "complete"]_vars

C14_Witness ==
  /\ lastOp = "stop"
  /\ status = "complete"
  /\ transcript # <<>>
  /\ \A i \in 1..Len(transcript) : transcript[i] = " "
  /\ localStorage.items = <<EarlierRecord>>
  /\ storedTranscripts = localStorage.items

\* C19: a storage write that fails during a manual stop is not fatal and is
\* reported: after the stop of a session with a non-empty final text that stored
\* nothing, an error is set, the recognizer is stopped, status is complete, the final
\* text is unchanged and the persisted and in-memory collections are as before.
C19_WriteFailureSurfaces ==
  [][(handleStopRecording /\ Trim(transcript) # <<>> /\ localStorage' = localStorage) =>
       /\ error' # NoError
       /\ recState' # "active"
       /\ status' = "complete"
       /\ transcript' = transcript
       /\ storedTranscripts' = storedTranscripts]_vars

\* C17: when the recognition capability is absent a start fails at once with the
\* unsupported-capability error: the start can be invoked, and it ends with status
\* error and that error set, the recognizer not started and nothing persisted.
UnsupportedError ==
  [message |-> "Speech Recognition Not Supported", details |-> "browser"]

C17_UnsupportedCapability ==
  /\ [](recState = "absent" => ENABLED handleStartRecording)
  /\ [][(handleStartRecording /\ recState = "absent") =>
          /\ status' = "error"
          /\ error' = UnsupportedError
          /\ recState' = "absent"
          /\ localStorage' = localStorage]_vars

\* C22: the start time is set exactly while recording: in every reachable state
\* recordingStartTime is not null if and only if status is recording.
C22_StartTimeIffRecording ==
  (recordingStartTime # NoTime) <=> (status = "recording")

\* C23: the interim text is discarded when the session ends: after a step that
\* takes status out of recording the interim text is empty.
C23_InterimDiscarded ==
  [][(status = "recording" /\ status' # "recording") => interimTranscript' = <<>>]_vars

\* C25: the remaining time of a listed transcript is never negative: for every
\* record of the in-memory collection, at any time, ONE_DAY_MS - (now - timestamp)
\* is greater than zero.
TimeRemaining(timestamp) == ONE_DAY_MS - (now - timestamp)

C25_RemainingPositive ==
  \A i \in 1..Len(storedTranscripts) : TimeRemaining(storedTranscripts[i].timestamp) > 0

\* C27: errors are terminal to the session: a step that takes status out of error is
\* a dismissal (to idle) or a start (to recording); no recognizer callback and no
\* timer moves status out of error.
C27_ErrorTerminal ==
  [][(status = "error" /\ status' # "error") =>
       \/ handleDismissError /\ status' = "idle"
       \/ handleStartRecording /\ status' = "recording"]_vars

\* C21: stored transcript ids are unique: in every reachable state no two records of
\* the persisted collection have the same id, also when two sessions are stopped
\* within the same clock tick.
C21_UniqueIds ==
  \A i, j \in 1..Len(localStorage.items) :
    localStorage.items[i].id = localStorage.items[j].id => i = j

\* C24: the language is immutable while recording: a step with status recording
\* before and after leaves the language unchanged, and a language change during
\* recording takes the session out of recording in the same step.
C24_LanguageImmutableWhileRecording ==
  /\ [][(status = "recording" /\ status' = "recording") =>
          selectedLanguage' = selectedLanguage]_vars
  /\ [][\A l \in Languages :
          (handleLanguageChange(l) /\ status = "recording") =>
            (status' # "recording" /\ selectedLanguage' = l)]_vars

C24_Witness ==
  /\ lastOp = "flush"
  /\ status = "complete"
  /\ selectedLanguage = "en-US"
  /\ recLang = "en-US"
  /\ recordingStartTime = NoTime

\* C28: an error callback with code c, in whatever status it arrives, sets an error
\* whose details carry c, sets status to error and asks the recognizer to stop; it
\* leaves the final text and the persisted collection unchanged.
C28_OnErrorEffect ==
  [][\A code \in ErrorCodes :
       onerror(code) =>
         /\ error' # NoError
         /\ error'.details = code
         /\ status' = "error"
         /\ recState' # "active"
         /\ transcript' = transcript
         /\ localStorage' = localStorage]_vars

C28_Witness ==
  /\ lastOp = "onerror"
  /\ status = "error"
  /\ error.details = "no-speech"
  /\ transcript # <<>>
  /\ recordingStartTime = NoTime
  /\ localStorage.present

\* C29: a start that does not throw ends, from any status but recording, with the
\* final and the interim text empty, the error cleared, the start time set to the
\* current time and status recording, and leaves the persisted and the in-memory
\* collection unchanged.
C29_StartResets ==
  [][(handleStartRecording /\ recState = "inactive") =>
       /\ transcript' = <<>>
       /\ interimTranscript' = <<>>
       /\ error' = NoError
       /\ recordingStartTime' = now
       /\ status' = "recording"
       /\ localStorage' = localStorage
       /\ storedTranscripts' = storedTranscripts]_vars

C29_Witness ==
  /\ lastOp = "start"
  /\ status = "recording"
  /\ transcript = <<>>
  /\ interimTranscript = <<>>
  /\ error = NoError
  /\ recordingStartTime = now
  /\ now > 1
  /\ localStorage.items # <<>>
  /\ LastStored.timestamp < now

\* C26: an export names the file transcript-<lang>-<date>.txt, <lang> being en for
\* en-US and zh for zh-CN and <date> the current day; the name depends on the
\* language and the date only, and the export changes neither the session state nor
\* the persisted collection.
ExportCode(lang) == IF lang = "zh-CN" THEN "zh" ELSE "en"

C26_ExportFileName ==
  [][\A d \in Offered :
       handleDownload(d[1], d[2]) =>
         /\ lastDownload'.name =
              <<"transcript-", ExportCode(d[2]), "-", now \div ONE_DAY_MS, ".txt">>
         /\ UNCHANGED <<status, transcript, interimTranscript, error, selectedLanguage,
                        recordingStartTime, storedTranscripts, localStorage>>]_vars

\* C30: with the recurring sweep and the clock both fair, a persisted record whose
\* age has reached the retention window is eventually removed from the persisted
\* collection: whenever the persisted collection holds an expired record, a later
\* state holds none (an expired record stays expired, so it is gone in that state).
HoldsExpired ==
  \E i \in 1..Len(localStorage.items) :
    now - localStorage.items[i].timestamp >= ONE_DAY_MS

C30_ExpiryEventuallyEnforced == HoldsExpired ~> ~HoldsExpired

\* C30 witness: the sweep has just emptied the persisted collection, while the
\* recognizer callbacks still hold the expired record that was persisted
C30_Witness ==
  /\ lastOp = "load"
  /\ localStorage.present
  /\ localStorage.items = <<>>
  /\ handlers.storedTranscripts # <<>>
  /\ \A i \in 1..Len(handlers.storedTranscripts) :
       now - handlers.storedTranscripts[i].timestamp >= ONE_DAY_MS

\* C31: with the duration check and the clock both fair, a session that is recording
\* (and whose ceiling lies within the modelled time) eventually leaves recording;
\* and the check forces a stop only on a session that is still recording, so once
\* per session and never after the session has stopped.
C31_SessionTerminates ==
  /\ (status = "recording" /\ recordingStartTime + MAX_RECORDING_HOURS <= MaxTime)
       ~> (status # "recording")
  /\ [][durationCheck => status = "recording"]_vars

\* C32: in every reachable state of the rendered component status is one of idle,
\* recording, complete and error; the declared status transcribing is never entered.
C32_StatusDomain == status \in {"idle", "recording", "complete", "error"}

\* C32 witness: a status other than the initial one and the two a stop sets, entered
\* by a callback: the recognizer has failed during a session whose handlers are
\* still those of the recording render
C32_Witness ==
  /\ status = "error"
  /\ error = RecognitionError("network")
  /\ handlers.status = "recording"
  /\ recState = "errored"

\* C33: whenever the recognizer is started, by the start handler or by the restart of
\* the end callback, it is configured with continuous mode on, interim results on and
\* the language of the session, also after a language change made while not recording.
StartInvoked == handleStartRecording \/ (onend /\ OnEndRestarts(handlers.status))

C33_StartConfiguration ==
  [][StartInvoked => (Continuous /\ InterimResults /\ recLang = selectedLanguage)]_vars

\* C33 witness: a session started after the language was changed to zh-CN, the
\* recognizer started with that language
C33_Witness ==
  /\ lastOp = "start"
  /\ status = "recording"
  /\ selectedLanguage = "zh-CN"
  /\ recLang = "zh-CN"
  /\ handlers.selectedLanguage = "zh-CN"

\* C34: a record that loadAndCleanTranscripts has removed never reappears in the
\* persisted collection, whatever the interleaving of stops and loads; and a load
\* never drops a persisted record that has not expired.
C34_RemovedStaysRemoved ==
  /\ [](\A i \in 1..Len(localStorage.items) : localStorage.items[i] \notin pruned)
  /\ [][loadAndCleanTranscripts =>
          \A i \in 1..Len(localStorage.items) :
            now - localStorage.items[i].timestamp < ONE_DAY_MS =>
              \E j \in 1..Len(localStorage'.items) :
                localStorage'.items[j] = localStorage.items[i]]_vars

\* C35: dismissing the error sets status to idle and error to null from whatever
\* status the banner is shown in, and leaves the final text, the language and the
\* persisted collection unchanged.
C35_DismissError ==
  [][handleDismissError =>
       /\ status' = "idle"
       /\ error' = NoError
       /\ transcript' = transcript
       /\ selectedLanguage' = selectedLanguage
       /\ localStorage' = localStorage
       /\ storedTranscripts' = storedTranscripts]_vars

\* C35 witness: the error of a zh-CN session was just dismissed; its final text and
\* the persisted record are still there
C35_Witness ==
  /\ lastOp = "dismiss"
  /\ status = "idle"
  /\ error = NoError
  /\ transcript # <<>>
  /\ selectedLanguage = "zh-CN"
  /\ localStorage.items # <<>>

\* C36: a language change while status is not recording only changes the language:
\* status, final text, interim text, error and the persisted collection are
\* unchanged and no record is appended.
C36_LanguageChangeOnly ==
  [][\A l \in Languages :
       (handleLanguageChange(l) /\ status # "recording") =>
         /\ selectedLanguage' = l
         /\ status' = status
         /\ transcript' = transcript
         /\ interimTranscript' = interimTranscript
         /\ error' = error
         /\ localStorage' = localStorage
         /\ storedTranscripts' = storedTranscripts]_vars

\* C36 witness: the language was just changed to zh-CN after a session failed; the
\* error, the status and the text of the session are still there
C36_Witness ==
  /\ lastOp = "language"
  /\ status = "error"
  /\ error # NoError
  /\ selectedLanguage = "zh-CN"
  /\ transcript # <<>>
  /\ handlers.selectedLanguage = "zh-CN"

\* C37: in every reachable state, status error implies that an error is recorded,
\* status recording implies that none is, and an error is present with status
\* complete only after a stop forced by a limit.
C37_ErrorMatchesStatus ==
  /\ status = "error" => error # NoError
  /\ status = "recording" => error = NoError
  /\ (status = "complete" /\ error # NoError) =>
       error \in {WordLimitError, DurationLimitError}

\* C38: after every operation (load, stop, language change, limit-forced stop) the
\* in-memory list of stored transcripts equals the persisted collection, an absent
\* storage value counting as the empty list, also when the stop was made by a
\* callback or timer closure that captured an older render's state.
C38_MemoryEqualsStore == storedTranscripts = localStorage.items

\* C38 witness: a stop made by a recognizer callback with the list of an older render
\* has written back a record the sweep had removed; memory and storage hold the same
\* two records
C38_Witness ==
  /\ Len(localStorage.items) = 2
  /\ localStorage.items[1] \in pruned
  /\ storedTranscripts = localStorage.items
  /\ error = WordLimitError

\* C39: after a stop that persisted a record the final text stays equal to the text
\* of that record until the next start: no other step, also not a result callback
\* delivered after the stop, changes the final text.
C39_FinalTextStable ==
  [][(/\ status # "recording"
      /\ localStorage.items # <<>>
      /\ LastStored.text = transcript
      /\ ~handleStartRecording) => transcript' = transcript]_vars
====
